---- MODULE Spec2Model ----
(***************************************************************************)
(* CalTrack backend (FastAPI + SQLAlchemy): the record store with its      *)
(* users, food entries, weight entries and favorites, the route handlers   *)
(* of app/api/routes.py that read and write it, and the Open Food Facts    *)
(* client of app/services/openfoodfacts.py.                                *)
(*                                                                         *)
(* Conventions.  An Optional[T] value is a sequence of length at most one: *)
(* <<>> is None, <<v>> is the value v.  Float columns are modelled by      *)
(* integers (exact arithmetic).  A calendar date is its proleptic          *)
(* Gregorian ordinal (date.toordinal()); date + timedelta(days=k) is       *)
(* ordinal + k.  created_at (server clock at insert) is modelled by the    *)
(* row id, which the store hands out in insertion order.                   *)
(***************************************************************************)
EXTENDS Integers, Sequences, FiniteSets, TLC

VARIABLES users, food_entries, weight_entries, favorite_foods, seq, resp, reqs

vars == <<users, food_entries, weight_entries, favorite_foods, seq, resp, reqs>>

store == <<users, food_entries, weight_entries, favorite_foods>>

(***************************************************************************)
(* Bounds of the model.                                                    *)
(***************************************************************************)
\* ids a table hands out over a run: a request that would insert a row is
\* taken only while the table's next id is at most MaxRows
MaxRows == 2
\* first calendar day the model uses: 2024-02-26, a Monday
BaseDay == 738942
\* concurrent requests in flight
NReq == 2

None == <<>>

Some(v) == <<v>>

IsNone(o) == o = <<>>

Val(o) == o[1]

(***************************************************************************)
(* Inputs the handlers are driven with.                                    *)
(***************************************************************************)
Names == {"ann", "bob"}

\* ids a request may name: every id the store can hand out and one more
Ids == 1 .. (MaxRows + 1)

\* entry dates: the last days of February 2024 and the first of March
Dates == BaseDay + 2 .. BaseDay + 4

MealTypes == {"breakfast", "lunch", "dinner", "snack"}

\* meal_type is a free string in FoodEntryCreate: one unlisted value
MealInputs == MealTypes \cup {"brunch"}

ServingInputs == {1, 2}

\* per-serving nutrition a request may carry
Profiles ==
    { [calories |-> 90, protein |-> 1, carbs |-> 20, fat |-> 3, fiber |-> 2, sugar |-> 12],
      [calories |-> 0, protein |-> 0, carbs |-> 0, fat |-> 0, fiber |-> 0, sugar |-> 0] }

GoalFields == {"calorie_goal", "protein_goal", "carb_goal", "fat_goal"}

(***************************************************************************)
(* Pydantic request models.                                                *)
(***************************************************************************)
UserCreate(name) ==
    [name |-> name, calorie_goal |-> Some(2000), protein_goal |-> Some(150),
     carb_goal |-> Some(200), fat_goal |-> Some(65)]

\* the value an update request carries for each goal: zero, the spec's
\* example, a negative one and a plain one
NewGoals == [calorie_goal |-> 0, protein_goal |-> 180, carb_goal |-> -5, fat_goal |-> 70]

\* A UserUpdate: the fields the request body set (fields_set) and the value
\* of every field: None for a field left unset (its default) or sent as null.
UserUpdate(fields_set, nulls) ==
    [fields_set |-> fields_set,
     values |-> [f \in GoalFields |->
                   IF f \in fields_set \ nulls THEN Some(NewGoals[f]) ELSE None]]

UserUpdates ==
    {UserUpdate(fs, nulls) : fs \in SUBSET GoalFields, nulls \in SUBSET GoalFields}

FoodEntryCreate(user_id, date, meal_type, servings, n) ==
    [user_id |-> user_id, date |-> date, meal_type |-> meal_type, name |-> "food",
     servings |-> servings, calories |-> n.calories, protein |-> n.protein,
     carbs |-> n.carbs, fat |-> n.fat, fiber |-> n.fiber, sugar |-> n.sugar]

(***************************************************************************)
(* The store: tables are sets of rows, the primary key id is unique, and   *)
(* a row that names a user must name a stored one (ForeignKey users.id).   *)
(***************************************************************************)
WithId(row, id) == [f \in DOMAIN row \cup {"id"} |-> IF f = "id" THEN id ELSE row[f]]

UserExists(user_id) == \E u \in users : u.id = user_id

ById(table, id) == {r \in table : r.id = id}

\* What a handler hands back to the transport: the operation, the id it was
\* asked about (0 when it takes none) and the HTTP status.  200 is success,
\* 400 and 404 are the HTTPExceptions the handlers raise, 500 is an exception
\* no handler catches.
Response(op, id, status) == [op |-> op, id |-> id, status |-> status]

Idle == [pc |-> "idle"]

Init ==
    /\ users = {}
    /\ food_entries = {}
    /\ weight_entries = {}
    /\ favorite_foods = {}
    /\ seq = [users |-> 1, food_entries |-> 1, weight_entries |-> 1, favorite_foods |-> 1]
    /\ resp = Response("start", 0, 200)
    /\ reqs = [r \in 1 .. NReq |-> Idle]

(***************************************************************************)
(* User endpoints.                                                         *)
(***************************************************************************)
\* db.add(User(...)); db.commit(): users.name is unique, a second row of the
\* same name is refused by the store (IntegrityError, not caught: 500).
InsertUser(user) ==
    IF \E u \in users : u.name = user.name
    THEN /\ resp' = Response("create_user", 0, 500)
         /\ UNCHANGED <<users, seq>>
    ELSE /\ users' = users \cup {WithId(user, seq.users)}
         /\ seq' = [seq EXCEPT !.users = @ + 1]
         /\ resp' = Response("create_user", seq.users, 200)

create_user(user) ==
    /\ (\A u \in users : u.name # user.name) => seq.users <= MaxRows
    /\ LET existing == {u \in users : u.name = user.name}
       IN  IF existing # {}
           THEN /\ resp' = Response("create_user", 0, 400)
                /\ UNCHANGED <<users, seq>>
           ELSE InsertUser(user)
    /\ UNCHANGED <<food_entries, weight_entries, favorite_foods, reqs>>

get_user(user_id) ==
    /\ resp' = Response("get_user", user_id, IF ById(users, user_id) = {} THEN 404 ELSE 200)
    /\ UNCHANGED <<store, seq, reqs>>

\* "if value:" in place of "if value is not None:": a zero is skipped too
ApplyUpdateTruthy(user, user_update) ==
    [f \in DOMAIN user |->
        IF /\ f \in user_update.fields_set
           /\ ~IsNone(user_update.values[f])
           /\ Val(user_update.values[f]) # 0
        THEN user_update.values[f]
        ELSE user[f]]

\* for field, value in user_update.dict(exclude_unset=True).items():
\*     if value is not None: setattr(user, field, value)
ApplyUpdate(user, user_update) ==
    [f \in DOMAIN user |->
        IF f \in user_update.fields_set /\ ~IsNone(user_update.values[f])
        THEN user_update.values[f]
        ELSE user[f]]

update_user(user_id, user_update) ==
    /\ LET found == ById(users, user_id)
       IN  IF found = {}
           THEN /\ resp' = Response("update_user", user_id, 404)
                /\ UNCHANGED users
           ELSE LET user == CHOOSE u \in found : TRUE
                IN  /\ users' = (users \ {user}) \cup {ApplyUpdate(user, user_update)}
                    /\ resp' = Response("update_user", user_id, 200)
    /\ UNCHANGED <<food_entries, weight_entries, favorite_foods, seq, reqs>>

(***************************************************************************)
(* Food entry endpoints.                                                   *)
(***************************************************************************)
create_food_entry(entry) ==
    /\ seq.food_entries <= MaxRows
    /\ IF UserExists(entry.user_id)
       THEN /\ food_entries' = food_entries \cup {WithId(entry, seq.food_entries)}
            /\ seq' = [seq EXCEPT !.food_entries = @ + 1]
            /\ resp' = Response("create_food_entry", seq.food_entries, 200)
       ELSE \* foreign key food_entries.user_id -> users.id refuses the row
            /\ resp' = Response("create_food_entry", 0, 500)
            /\ UNCHANGED <<food_entries, seq>>
    /\ UNCHANGED <<users, weight_entries, favorite_foods, reqs>>

update_food_entry(entry_id, servings) ==
    /\ LET found == ById(food_entries, entry_id)
       IN  IF found = {}
           THEN /\ resp' = Response("update_food_entry", entry_id, 404)
                /\ UNCHANGED food_entries
           ELSE LET entry == CHOOSE e \in found : TRUE
                IN  /\ food_entries' =
                          (food_entries \ {entry}) \cup {[entry EXCEPT !.servings = servings]}
                    /\ resp' = Response("update_food_entry", entry_id, 200)
    /\ UNCHANGED <<users, weight_entries, favorite_foods, seq, reqs>>

\* the filter names the entry's user instead of the entry: every entry of
\* that user goes
delete_food_entry_of_user(entry_id) ==
    /\ LET found == ById(food_entries, entry_id)
       IN  IF found = {}
           THEN /\ resp' = Response("delete_food_entry", entry_id, 404)
                /\ UNCHANGED food_entries
           ELSE /\ food_entries' =
                     {e \in food_entries : \A f \in found : e.user_id # f.user_id}
                /\ resp' = Response("delete_food_entry", entry_id, 200)
    /\ UNCHANGED <<users, weight_entries, favorite_foods, seq, reqs>>

delete_food_entry(entry_id) ==
    /\ LET found == ById(food_entries, entry_id)
       IN  IF found = {}
           THEN /\ resp' = Response("delete_food_entry", entry_id, 404)
                /\ UNCHANGED food_entries
           ELSE /\ food_entries' = food_entries \ found
                /\ resp' = Response("delete_food_entry", entry_id, 200)
    /\ UNCHANGED <<users, weight_entries, favorite_foods, seq, reqs>>

(***************************************************************************)
(* Calendar: date.isoformat() of an ordinal, as the (year, month, day)     *)
(* triple the "YYYY-MM-DD" string spells, and date.weekday().              *)
(***************************************************************************)
IsLeap(year) == year % 4 = 0 /\ (year % 100 # 0 \/ year % 400 = 0)

DaysInMonth(year, month) ==
    IF month = 2 THEN (IF IsLeap(year) THEN 29 ELSE 28)
    ELSE IF month \in {4, 6, 9, 11} THEN 30 ELSE 31

RECURSIVE MonthDay(_, _, _)
\* the month and day of the n-th day (from 0) of the year, counting from month
MonthDay(year, month, n) ==
    IF n < DaysInMonth(year, month)
    THEN <<year, month, n + 1>>
    ELSE MonthDay(year, month + 1, n - DaysInMonth(year, month))

IsoFormat(ordinal) ==
    LET n    == ordinal - 1
        n400 == n \div 146097
        r400 == n % 146097
        n100 == r400 \div 36524
        r100 == r400 % 36524
        n4   == r100 \div 1461
        r4   == r100 % 1461
        n1   == r4 \div 365
        r1   == r4 % 365
        year == n400 * 400 + n100 * 100 + n4 * 4 + n1 + 1
    IN  IF n1 = 4 \/ n100 = 4
        THEN <<year - 1, 12, 31>>
        ELSE MonthDay(year, 1, r1)

\* Monday is 0
Weekday(ordinal) == (ordinal + 6) % 7

(***************************************************************************)
(* Aggregation: get_daily_entries and get_weekly_stats.                    *)
(***************************************************************************)
Macros == {"calories", "protein", "carbs", "fat"}

ZeroTotals == [m \in Macros |-> 0]

\* ORDER BY meal_type: the strings of MealInputs in their collation order
MealOrder == <<"breakfast", "brunch", "dinner", "lunch", "snack">>

MealRank(meal_type) == CHOOSE i \in 1 .. Len(MealOrder) : MealOrder[i] = meal_type

RECURSIVE OrderByMealCreated(_)
\* .order_by(FoodEntry.meal_type, FoodEntry.created_at).all()
OrderByMealCreated(rows) ==
    IF rows = {} THEN <<>>
    ELSE LET first == CHOOSE e \in rows : \A o \in rows :
                         \/ MealRank(e.meal_type) < MealRank(o.meal_type)
                         \/ MealRank(e.meal_type) = MealRank(o.meal_type) /\ e.id <= o.id
         IN  <<first>> \o OrderByMealCreated(rows \ {first})

\* {**entry.__dict__, "total_calories": ..., ...}
Projection(entry) ==
    [entry |-> entry,
     total_calories |-> entry.calories * entry.servings,
     total_protein  |-> entry.protein * entry.servings,
     total_carbs    |-> entry.carbs * entry.servings,
     total_fat      |-> entry.fat * entry.servings]

AddTotals(totals, entry) ==
    [totals EXCEPT !["calories"] = @ + entry.calories * entry.servings,
                   !["protein"]  = @ + entry.protein * entry.servings,
                   !["carbs"]    = @ + entry.carbs * entry.servings,
                   !["fat"]      = @ + entry.fat * entry.servings]

RECURSIVE DailyLoop(_, _, _, _, _)
\* for entry in entries: grouped[entry.meal_type].append(...); totals[...] += ...
\* grouped has the four keys of MealTypes only: any other key raises KeyError.
DailyLoop(entries, i, grouped, totals, entry_date) ==
    IF i > Len(entries)
    THEN [status |-> 200, date |-> entry_date, meals |-> grouped, totals |-> totals]
    ELSE LET entry == entries[i]
         IN  IF entry.meal_type \notin DOMAIN grouped
             THEN [status |-> 500, error |-> "KeyError"]
             ELSE DailyLoop(entries, i + 1,
                            [grouped EXCEPT ![entry.meal_type] = Append(@, Projection(entry))],
                            AddTotals(totals, entry), entry_date)

get_daily_entries(user_id, entry_date) ==
    LET entries == OrderByMealCreated(
                       {e \in food_entries : e.user_id = user_id /\ e.date = entry_date})
        grouped == [m \in MealTypes |-> <<>>]
    IN  DailyLoop(entries, 1, grouped, ZeroTotals, entry_date)

\* A dict in insertion order: a sequence of <<key, value>> pairs, keys distinct.
HasKey(dict, key) == \E i \in 1 .. Len(dict) : dict[i][1] = key

KeyIndex(dict, key) == CHOOSE i \in 1 .. Len(dict) : dict[i][1] = key

SetItem(dict, key, value) ==
    IF HasKey(dict, key)
    THEN [dict EXCEPT ![KeyIndex(dict, key)] = <<key, value>>]
    ELSE Append(dict, <<key, value>>)

\* range(6): the last day of the week is not seeded
WeekDaysShort == 7 - 1

\* range(7)
WeekDays == 7

RECURSIVE SeedWeek(_, _, _)
\* for i in range(7): daily_stats[(start_date + timedelta(days=i)).isoformat()] = zeros
SeedWeek(start_date, i, daily_stats) ==
    IF i >= WeekDays THEN daily_stats
    ELSE SeedWeek(start_date, i + 1,
                  SetItem(daily_stats, IsoFormat(start_date + i), ZeroTotals))

RECURSIVE WeeklyLoop(_, _)
\* for entry in entries: if day_key in daily_stats: daily_stats[day_key][...] += ...
\* (.all() without ORDER BY: the rows come in any order; sums do not depend on it)
WeeklyLoop(rows, daily_stats) ==
    IF rows = {} THEN daily_stats
    ELSE LET entry   == CHOOSE e \in rows : TRUE
             day_key == IsoFormat(entry.date)
         IN  WeeklyLoop(rows \ {entry},
                 IF HasKey(daily_stats, day_key)
                 THEN SetItem(daily_stats, day_key,
                              AddTotals(daily_stats[KeyIndex(daily_stats, day_key)][2], entry))
                 ELSE daily_stats)

\* the query without its FoodEntry.user_id == user_id filter
get_weekly_stats_any_user(user_id, start_date, today) ==
    LET start   == IF IsNone(start_date) THEN today - Weekday(today) ELSE Val(start_date)
        end_date == start + 6
        entries == {e \in food_entries : e.date >= start /\ e.date <= end_date}
    IN  [status |-> 200, start_date |-> start, end_date |-> end_date,
         daily_stats |-> WeeklyLoop(entries, SeedWeek(start, 0, <<>>))]

\* start_date is Optional[date]; today is date.today() at the time of the call
get_weekly_stats(user_id, start_date, today) ==
    LET start   == IF IsNone(start_date) THEN today - Weekday(today) ELSE Val(start_date)
        end_date == start + 6
        entries == {e \in food_entries :
                       e.user_id = user_id /\ e.date >= start /\ e.date <= end_date}
    IN  [status |-> 200, start_date |-> start, end_date |-> end_date,
         daily_stats |-> WeeklyLoop(entries, SeedWeek(start, 0, <<>>))]

GetDailyEntries(user_id, entry_date) ==
    /\ resp' = Response("get_daily_entries", 0, get_daily_entries(user_id, entry_date).status)
    /\ UNCHANGED <<store, seq, reqs>>

GetWeeklyStats(user_id, start_date, today) ==
    /\ resp' = Response("get_weekly_stats", 0,
                        get_weekly_stats(user_id, start_date, today).status)
    /\ UNCHANGED <<store, seq, reqs>>

(***************************************************************************)
(* Weight endpoints.                                                       *)
(***************************************************************************)
WeightEntryCreate(user_id, date, weight, note) ==
    [user_id |-> user_id, date |-> date, weight |-> weight, note |-> note]

\* db.query(WeightEntry).filter(user_id == ..., date == ...).first(): the id of
\* a matching row (any one, there is no ORDER BY), or None
QueryWeight(entry) ==
    LET found == {w \in weight_entries : w.user_id = entry.user_id /\ w.date = entry.date}
    IN  IF found = {} THEN {None} ELSE {Some(w.id) : w \in found}

\* a note given as null keeps the stored note
UpdatedWeightKeepsNote(row, entry) ==
    [row EXCEPT !.weight = entry.weight,
                !.note = IF IsNone(entry.note) THEN @ ELSE entry.note]

\* existing.weight = entry.weight; existing.note = entry.note
UpdatedWeight(row, entry) == [row EXCEPT !.weight = entry.weight, !.note = entry.note]

\* the rest of create_weight_entry once the query has answered `existing`
WriteWeight(entry, existing) ==
    IF ~IsNone(existing)
    THEN LET found == ById(weight_entries, Val(existing))
         IN  IF found = {}
             THEN \* the row went away since the query: the UPDATE matches nothing
                  /\ resp' = Response("create_weight_entry", Val(existing), 500)
                  /\ UNCHANGED <<weight_entries, seq>>
             ELSE LET row == CHOOSE w \in found : TRUE
                  IN  /\ weight_entries' = (weight_entries \ {row}) \cup {UpdatedWeight(row, entry)}
                      /\ resp' = Response("create_weight_entry", row.id, 200)
                      /\ UNCHANGED seq
    ELSE IF UserExists(entry.user_id)
         THEN /\ weight_entries' = weight_entries \cup {WithId(entry, seq.weight_entries)}
              /\ seq' = [seq EXCEPT !.weight_entries = @ + 1]
              /\ resp' = Response("create_weight_entry", seq.weight_entries, 200)
         ELSE \* foreign key weight_entries.user_id -> users.id refuses the row
              /\ resp' = Response("create_weight_entry", 0, 500)
              /\ UNCHANGED <<weight_entries, seq>>

create_weight_entry(entry) ==
    /\ QueryWeight(entry) = {None} => seq.weight_entries <= MaxRows
    /\ \E existing \in QueryWeight(entry) : WriteWeight(entry, existing)
    /\ UNCHANGED <<users, food_entries, favorite_foods, reqs>>

delete_weight_entry(entry_id) ==
    /\ LET found == ById(weight_entries, entry_id)
       IN  IF found = {}
           THEN /\ resp' = Response("delete_weight_entry", entry_id, 404)
                /\ UNCHANGED weight_entries
           ELSE /\ weight_entries' = weight_entries \ found
                /\ resp' = Response("delete_weight_entry", entry_id, 200)
    /\ UNCHANGED <<users, food_entries, favorite_foods, seq, reqs>>

(***************************************************************************)
(* Favorites endpoints.                                                    *)
(***************************************************************************)
FavoriteFoodCreate(user_id, name) ==
    [user_id |-> user_id, name |-> name, calories_per_100g |-> 0, source |-> "openfoodfacts"]

add_favorite(favorite) ==
    /\ seq.favorite_foods <= MaxRows
    /\ IF UserExists(favorite.user_id)
       THEN /\ favorite_foods' = favorite_foods \cup {WithId(favorite, seq.favorite_foods)}
            /\ seq' = [seq EXCEPT !.favorite_foods = @ + 1]
            /\ resp' = Response("add_favorite", seq.favorite_foods, 200)
       ELSE \* foreign key favorite_foods.user_id -> users.id refuses the row
            /\ resp' = Response("add_favorite", 0, 500)
            /\ UNCHANGED <<favorite_foods, seq>>
    /\ UNCHANGED <<users, food_entries, weight_entries, reqs>>

remove_favorite(favorite_id) ==
    /\ LET found == ById(favorite_foods, favorite_id)
       IN  IF found = {}
           THEN /\ resp' = Response("remove_favorite", favorite_id, 404)
                /\ UNCHANGED favorite_foods
           ELSE /\ favorite_foods' = favorite_foods \ found
                /\ resp' = Response("remove_favorite", favorite_id, 200)
    /\ UNCHANGED <<users, food_entries, weight_entries, seq, reqs>>

(***************************************************************************)
(* Requests served by several workers against the one store.  A handler    *)
(* first runs its query and later its write and commit; between the two    *)
(* another worker's handler may run.  Nothing in the handlers locks a row  *)
(* or a table.                                                             *)
(***************************************************************************)
CreateUserQuery(r, user) ==
    /\ reqs[r].pc = "idle"
    /\ (\A u \in users : u.name # user.name) => seq.users <= MaxRows
    /\ reqs' = [reqs EXCEPT ![r] =
                   [pc |-> "queried", op |-> "create_user", body |-> user,
                    existing |-> IF \E u \in users : u.name = user.name
                                 THEN Some(TRUE) ELSE None]]
    /\ UNCHANGED <<store, seq, resp>>

CreateUserFinish(r) ==
    /\ reqs[r].pc = "queried"
    /\ reqs[r].op = "create_user"
    /\ IF ~IsNone(reqs[r].existing)
       THEN /\ resp' = Response("create_user", 0, 400)
            /\ UNCHANGED <<users, seq>>
       ELSE InsertUser(reqs[r].body)
    /\ reqs' = [reqs EXCEPT ![r] = Idle]
    /\ UNCHANGED <<food_entries, weight_entries, favorite_foods>>

CreateWeightQuery(r, entry) ==
    /\ reqs[r].pc = "idle"
    /\ QueryWeight(entry) = {None} => seq.weight_entries <= MaxRows
    /\ \E existing \in QueryWeight(entry) :
          reqs' = [reqs EXCEPT ![r] =
                     [pc |-> "queried", op |-> "create_weight_entry", body |-> entry,
                      existing |-> existing]]
    /\ UNCHANGED <<store, seq, resp>>

CreateWeightFinish(r) ==
    /\ reqs[r].pc = "queried"
    /\ reqs[r].op = "create_weight_entry"
    /\ WriteWeight(reqs[r].body, reqs[r].existing)
    /\ reqs' = [reqs EXCEPT ![r] = Idle]
    /\ UNCHANGED <<users, food_entries, favorite_foods>>

(***************************************************************************)
(* Open Food Facts client (app/services/openfoodfacts.py).                 *)
(*                                                                         *)
(* One upstream call ends in one of: an httpx exception raised by          *)
(* client.get (transport error, timeout), or a response with a status and  *)
(* a body.  A body is no JSON at all, a JSON value that is no object, or   *)
(* a JSON object; a key of a JSON object is an Optional (None: the key is  *)
(* absent).  The value of "nutriments" is a JSON object or JSON null.      *)
(*                                                                         *)
(* A function's outcome is [raised |-> FALSE, value |-> v] when it returns *)
(* v and [raised |-> TRUE, error |-> e] when exception e leaves it.        *)
(***************************************************************************)
Return(v) == [raised |-> FALSE, value |-> v]

Raise(e) == [raised |-> TRUE, error |-> e]

\* dict.get(key, default) on a key modelled as an Optional
Get(opt, default) == IF IsNone(opt) THEN default ELSE Val(opt)

\* dict.get(key, default) on a map modelled as a function
MapGet(map, key, default) == IF key \in DOMAIN map THEN map[key] ELSE default

JsonNull == [type |-> "null"]

JsonObject(items) == [type |-> "object", items |-> items]

EmptyDict == JsonObject(<<>>)

NutrientKeys ==
    {"energy-kcal_100g", "proteins_100g", "carbohydrates_100g",
     "fat_100g", "fiber_100g", "sugars_100g"}

\* the figure upstream gives for a nutrient when it gives one
NutrientValue(key) ==
    CASE key = "energy-kcal_100g"   -> 370
      [] key = "proteins_100g"      -> 13
      [] key = "carbohydrates_100g" -> 59
      [] key = "fat_100g"           -> 7
      [] key = "fiber_100g"         -> 10
      [] key = "sugars_100g"        -> 1

ProductKeys == {"code", "product_name", "brands", "image_front_small_url", "serving_size"}

ProductValue(key) ==
    CASE key = "code"                   -> "4001724819806"
      [] key = "product_name"           -> "Haferflocken"
      [] key = "brands"                 -> "Koelln"
      [] key = "image_front_small_url"  -> "https://images.example/front.jpg"
      [] key = "serving_size"           -> "40g"

\* a raw product carrying the keys of `present`, and `nutriments` (an Optional)
RawProduct(present, nutriments) ==
    [code                  |-> IF "code" \in present THEN Some(ProductValue("code")) ELSE None,
     product_name          |-> IF "product_name" \in present
                               THEN Some(ProductValue("product_name")) ELSE None,
     brands                |-> IF "brands" \in present THEN Some(ProductValue("brands")) ELSE None,
     image_front_small_url |-> IF "image_front_small_url" \in present
                               THEN Some(ProductValue("image_front_small_url")) ELSE None,
     serving_size          |-> IF "serving_size" \in present
                               THEN Some(ProductValue("serving_size")) ELSE None,
     nutriments            |-> nutriments]

NutrimentsInputs ==
    {None, Some(JsonNull)} \cup
    {Some(JsonObject([k \in ks |-> NutrientValue(k)])) : ks \in SUBSET NutrientKeys}

RawProducts == {RawProduct(ks, n) : ks \in SUBSET ProductKeys, n \in NutrimentsInputs}

\* {}: what product = data.get("product", {}) is when the key is absent
EmptyProduct == RawProduct({}, None)

\* nutriments.get(key, 0); nutriments is None when upstream sent null
NutrientGet(nutriments, key) == MapGet(nutriments.items, key, 0)

\* the dict search_food appends for one product (lines 32-47)
SearchNormalize(product) ==
    LET nutriments == Get(product.nutriments, EmptyDict)
    IN  [barcode           |-> product.code,
         name              |-> Get(product.product_name, "Unbekannt"),
         brand             |-> Get(product.brands, ""),
         image_url         |-> product.image_front_small_url,
         serving_size      |-> Get(product.serving_size, "100g"),
         calories_per_100g |-> NutrientGet(nutriments, "energy-kcal_100g"),
         protein_per_100g  |-> NutrientGet(nutriments, "proteins_100g"),
         carbs_per_100g    |-> NutrientGet(nutriments, "carbohydrates_100g"),
         fat_per_100g      |-> NutrientGet(nutriments, "fat_100g"),
         fiber_per_100g    |-> NutrientGet(nutriments, "fiber_100g"),
         sugar_per_100g    |-> NutrientGet(nutriments, "sugars_100g"),
         source            |-> "openfoodfacts"]

\* the barcode path with no default for a missing serving_size
BarcodeNormalizeNoServing(product) ==
    [SearchNormalize(product) EXCEPT !.serving_size = Get(product.serving_size, "")]

\* the dict get_product_by_barcode returns (lines 75-91)
BarcodeNormalize(product) ==
    LET nutriments == Get(product.nutriments, EmptyDict)
    IN  [barcode           |-> product.code,
         name              |-> Get(product.product_name, "Unbekannt"),
         brand             |-> Get(product.brands, ""),
         image_url         |-> product.image_front_small_url,
         serving_size      |-> Get(product.serving_size, "100g"),
         calories_per_100g |-> NutrientGet(nutriments, "energy-kcal_100g"),
         protein_per_100g  |-> NutrientGet(nutriments, "proteins_100g"),
         carbs_per_100g    |-> NutrientGet(nutriments, "carbohydrates_100g"),
         fat_per_100g      |-> NutrientGet(nutriments, "fat_100g"),
         fiber_per_100g    |-> NutrientGet(nutriments, "fiber_100g"),
         sugar_per_100g    |-> NutrientGet(nutriments, "sugars_100g"),
         source            |-> "openfoodfacts"]

\* None.get(...) raises AttributeError
NullNutriments(product) == product.nutriments = Some(JsonNull)

HttpOk == 200

PageSize == 20

RECURSIVE SearchLoop(_, _, _)
\* for product in data.get("products", []): products.append({...})
SearchLoop(raw, i, products) ==
    IF i > Len(raw) THEN Return(products)
    ELSE IF NullNutriments(raw[i]) THEN Raise("AttributeError")
    ELSE SearchLoop(raw, i + 1, Append(products, SearchNormalize(raw[i])))

search_food(page, upstream) ==
    IF upstream.kind # "response" THEN Raise(upstream.kind)
    ELSE IF upstream.status_code # HttpOk THEN Return([products |-> <<>>, count |-> 0])
    ELSE IF upstream.body.type = "text" THEN Raise("JSONDecodeError")
    ELSE IF upstream.body.type # "object" THEN Raise("AttributeError")
    ELSE LET data == upstream.body.items
             loop == SearchLoop(Get(data.products, <<>>), 1, <<>>)
         IN  IF loop.raised THEN loop
             ELSE Return([products |-> loop.value, count |-> Get(data.count, 0),
                          page |-> page, page_size |-> PageSize])

get_product_by_barcode(upstream) ==
    IF upstream.kind # "response" THEN Raise(upstream.kind)
    ELSE IF upstream.status_code # HttpOk THEN Return(None)
    ELSE IF upstream.body.type = "text" THEN Raise("JSONDecodeError")
    ELSE IF upstream.body.type # "object" THEN Raise("AttributeError")
    ELSE LET data == upstream.body.items
         IN  IF data.status # Some(1) THEN Return(None)
             ELSE LET product == Get(data.product, EmptyProduct)
                  IN  IF NullNutriments(product) THEN Raise("AttributeError")
                      ELSE Return(Some(BarcodeNormalize(product)))

\* upstream outcomes that are no well-formed success
Failures ==
    {[kind |-> "ConnectError"], [kind |-> "ReadTimeout"]} \cup
    {[kind |-> "response", status_code |-> c, body |-> [type |-> "text"]] : c \in {200, 404, 500}} \cup
    {[kind |-> "response", status_code |-> HttpOk, body |-> [type |-> "array"]]}

SearchBody(products, count) == JsonObject([products |-> products, count |-> count])

\* result lists of up to two products: every raw product alone, and a few
\* of them followed by a full or an empty record
SearchLists ==
    {None, Some(<<>>)} \cup {Some(<<p>>) : p \in RawProducts} \cup
    {Some(<<p, q>>) : p \in {RawProduct(ks, n) : ks \in {{}, ProductKeys},
                                                 n \in {None, Some(JsonNull), Some(EmptyDict)}},
                      q \in {EmptyProduct, RawProduct(ProductKeys, Some(JsonNull))}}

SearchUpstreams ==
    Failures \cup
    {[kind |-> "response", status_code |-> 503, body |-> SearchBody(None, None)]} \cup
    {[kind |-> "response", status_code |-> HttpOk, body |-> SearchBody(ps, Some(57))] :
        ps \in SearchLists} \cup
    {[kind |-> "response", status_code |-> HttpOk, body |-> SearchBody(Some(<<>>), None)]}

BarcodeBody(status, product) == JsonObject([status |-> status, product |-> product])

BarcodeUpstreams ==
    Failures \cup
    {[kind |-> "response", status_code |-> 404, body |-> BarcodeBody(Some(0), None)]} \cup
    {[kind |-> "response", status_code |-> HttpOk, body |-> BarcodeBody(st, None)] :
        st \in {None, Some(0), Some(1)}} \cup
    {[kind |-> "response", status_code |-> HttpOk, body |-> BarcodeBody(st, Some(p))] :
        st \in {Some(0), Some(1)}, p \in RawProducts}

\* routes.py: the handlers hand the outcome on; an exception is a 500
SearchFood(page, upstream) ==
    /\ LET results == search_food(page, upstream)
       IN  resp' = [op |-> "search_food", id |-> 0,
                    status |-> IF results.raised THEN 500 ELSE 200,
                    upstream |-> upstream, results |-> results]
    /\ UNCHANGED <<store, seq, reqs>>

GetFoodByBarcode(upstream) ==
    /\ LET product == get_product_by_barcode(upstream)
       IN  resp' = [op |-> "get_food_by_barcode", id |-> 0,
                    status |-> IF product.raised THEN 500
                               ELSE IF IsNone(product.value) THEN 404 ELSE 200,
                    upstream |-> upstream, results |-> product]
    /\ UNCHANGED <<store, seq, reqs>>

\* the transport has sent the response; the next request may come
Deliver ==
    /\ resp.op # "start"
    /\ resp' = Response("start", 0, 200)
    /\ UNCHANGED <<store, seq, reqs>>

(***************************************************************************)
(* Specifications.  Spec drives every handler that creates, changes or     *)
(* deletes a row, one request at a time; SpecUsers, SpecFood and           *)
(* SpecWeight drive one table's handlers with a wider choice of requests   *)
(* (SpecWeek: the weekly statistics over entries that differ in user and   *)
(* date only);                                                             *)
(* SpecConc runs create_user and create_weight_entry requests of several   *)
(* workers interleaved.                                                    *)
(***************************************************************************)
UserIds == 1 .. (MaxRows + 1)

FoodInputs ==
    {FoodEntryCreate(u, d, m, s, n) :
        u \in UserIds, d \in BaseDay + 2 .. BaseDay + 3, m \in MealInputs,
        s \in ServingInputs, n \in {x \in Profiles : x.calories > 0}}

WeightInputs ==
    {WeightEntryCreate(u, d, w, n) :
        u \in UserIds, d \in BaseDay + 2 .. BaseDay + 3, w \in {70, 72},
        n \in {None, Some("after run")}}

\* the weight requests of concurrent workers: one date, two weights
ConcWeightInputs == {WeightEntryCreate(u, BaseDay + 2, w, None) : u \in UserIds, w \in {70, 72}}

\* start_date of a weekly request: none, or a day around the entries' dates
StartDates == {Some(BaseDay + k) : k \in {-5, -4, 2, 3, 4}}

CreateUsers == \E n \in Names : create_user(UserCreate(n))

Next ==
    \/ create_user(UserCreate("ann"))
    \/ \E id \in Ids : update_user(id, UserUpdate({"protein_goal"}, {}))
    \/ \E u \in UserIds : create_food_entry(FoodEntryCreate(u, BaseDay + 2, "lunch", 1,
                                  CHOOSE n \in Profiles : n.calories > 0))
    \/ \E id \in Ids, s \in ServingInputs : update_food_entry(id, s)
    \/ \E id \in Ids : delete_food_entry(id)
    \/ \E u \in UserIds : create_weight_entry(WeightEntryCreate(u, BaseDay + 2, 70, None))
    \/ \E id \in Ids : delete_weight_entry(id)
    \/ \E u \in UserIds : add_favorite(FavoriteFoodCreate(u, "oats"))
    \/ \E id \in Ids : remove_favorite(id)

Spec == Init /\ [][Next]_vars

NextUsers ==
    \/ CreateUsers
    \/ \E id \in Ids : get_user(id)
    \/ \E id \in Ids, p \in UserUpdates : update_user(id, p)

SpecUsers == Init /\ [][NextUsers]_vars

NextFood ==
    \/ CreateUsers
    \/ \E e \in FoodInputs : create_food_entry(e)
    \/ \E id \in Ids, s \in ServingInputs : update_food_entry(id, s)
    \/ \E id \in Ids : delete_food_entry(id)
    \/ \E u \in UserIds, d \in Dates : GetDailyEntries(u, d)
    \/ \E u \in UserIds, sd \in StartDates : GetWeeklyStats(u, sd, BaseDay)
    \/ \E u \in UserIds, today \in Dates : GetWeeklyStats(u, None, today)

SpecFood == Init /\ [][NextFood]_vars

\* the weekly statistics over a store of plain lunch entries
WeekInputs ==
    {FoodEntryCreate(u, d, "lunch", 2, CHOOSE n \in Profiles : n.calories > 0) :
        u \in UserIds, d \in BaseDay + 2 .. BaseDay + 3}

NextWeek ==
    \/ CreateUsers
    \/ \E e \in WeekInputs : create_food_entry(e)
    \/ \E id \in Ids : delete_food_entry(id)
    \/ \E u \in UserIds, sd \in StartDates : GetWeeklyStats(u, sd, BaseDay)
    \/ \E u \in UserIds, today \in Dates : GetWeeklyStats(u, None, today)

SpecWeek == Init /\ [][NextWeek]_vars

\* the daily and the weekly view over entries that are created, re-served and
\* deleted; "brunch" is a meal_type the daily view has no bucket for
StatsInputs ==
    {FoodEntryCreate(u, d, "lunch", 1, CHOOSE n \in Profiles : n.calories > 0) :
        u \in UserIds, d \in BaseDay + 2 .. BaseDay + 3}
    \cup {FoodEntryCreate(u, BaseDay + 3, "brunch", 1, CHOOSE n \in Profiles : n.calories > 0) :
        u \in UserIds}

\* the weekly requests: an explicit start_date, or none and the day of the call
\* (windows holding both entry dates, the first only, the second only, neither)
WeekRequests ==
    {<<Some(BaseDay + k), BaseDay>> : k \in {-5, -4, 3}} \cup {<<None, BaseDay + 3>>}

NextStats ==
    \/ CreateUsers
    \/ \E e \in StatsInputs : create_food_entry(e)
    \/ \E id \in Ids, s \in ServingInputs : update_food_entry(id, s)
    \/ \E id \in Ids : delete_food_entry(id)
    \/ \E u \in UserIds, d \in BaseDay + 2 .. BaseDay + 3 : GetDailyEntries(u, d)
    \/ \E u \in UserIds, q \in WeekRequests : GetWeeklyStats(u, q[1], q[2])

SpecStats == Init /\ [][NextStats]_vars

NextWeight ==
    \/ CreateUsers
    \/ \E e \in WeightInputs : create_weight_entry(e)
    \/ \E id \in Ids : delete_weight_entry(id)

SpecWeight == Init /\ [][NextWeight]_vars

NextConc ==
    \/ \E r \in 1 .. NReq, n \in Names : CreateUserQuery(r, UserCreate(n))
    \/ \E r \in 1 .. NReq : CreateUserFinish(r)
    \/ \E r \in 1 .. NReq, e \in ConcWeightInputs : CreateWeightQuery(r, e)
    \/ \E r \in 1 .. NReq : CreateWeightFinish(r)

SpecConc == Init /\ [][NextConc]_vars

\* one request at a time: the next one comes once the response is delivered
SearchRequest ==
    /\ resp.op = "start"
    /\ \E page \in {1, 2}, up \in SearchUpstreams : SearchFood(page, up)

BarcodeRequest ==
    /\ resp.op = "start"
    /\ \E up \in BarcodeUpstreams : GetFoodByBarcode(up)

NextOFF == SearchRequest \/ BarcodeRequest \/ Deliver

SpecOFF == Init /\ [][NextOFF]_vars

(***************************************************************************)
(* Properties.                                                             *)
(***************************************************************************)
WeightRowsFor(user_id, date) ==
    {w \in weight_entries : w.user_id = user_id /\ w.date = date}

\* C1: in every reachable state, whatever the interleaving of concurrent
\* create_weight_entry requests, there is at most one WeightEntry per
\* (user_id, date).
C1_OnePerUserDate ==
    \A a \in weight_entries, b \in weight_entries :
        (a.user_id = b.user_id /\ a.date = b.date) => a = b

\* The effect the upsert is to have on the weight table: an existing row for
\* (user_id, date) keeps id, user_id and date and takes the supplied weight and
\* note, and the table keeps its size; with no such row, `inserts` says
\* whether a row is added, and when it is the table gains exactly that row.
UpsertEffect(entry, inserts) ==
    LET found == WeightRowsFor(entry.user_id, entry.date)
    IN  IF found # {}
        THEN /\ \E row \in found :
                  weight_entries' = (weight_entries \ {row}) \cup
                      {[id |-> row.id, user_id |-> row.user_id, date |-> row.date,
                        weight |-> entry.weight, note |-> entry.note]}
             /\ Cardinality(weight_entries') = Cardinality(weight_entries)
        ELSE IF inserts
        THEN /\ Cardinality(weight_entries') = Cardinality(weight_entries) + 1
             /\ \E new \in weight_entries' :
                  /\ weight_entries' = weight_entries \cup {new}
                  /\ new.id \notin {w.id : w \in weight_entries}
                  /\ new.user_id = entry.user_id /\ new.date = entry.date
                  /\ new.weight = entry.weight /\ new.note = entry.note
        ELSE /\ weight_entries' = weight_entries
             /\ resp'.status = 500

\* C2 as stated: a sequential create_weight_entry overwrites weight and note
\* of the existing record for (user_id, date), keeping its id, user and date
\* and the number of records, and adds exactly one record when none exists.
C2_UpsertAlwaysInserts ==
    [][\A e \in WeightInputs : create_weight_entry(e) => UpsertEffect(e, TRUE)]_vars

\* C2 amended: as above, but with no existing record a row is added only
\* when user_id names a stored user; for an unknown user_id the store refuses
\* the row (foreign key), the call fails and no record is added.
C2_Upsert ==
    [][\A e \in WeightInputs :
          create_weight_entry(e) => UpsertEffect(e, UserExists(e.user_id))]_vars

\* an existing row was overwritten (the id answered is not the newest one)
\* while another date's row stands beside it
C2_Witness ==
    /\ resp.op = "create_weight_entry"
    /\ resp.status = 200
    /\ resp.id + 1 < seq.weight_entries
    /\ Cardinality(weight_entries) = 2
    /\ \E w \in weight_entries : w.id = resp.id /\ w.weight = 72 /\ IsNone(w.note)

RECURSIVE SumRows(_, _)
\* sum over a set of food entries of per-serving value x servings
SumRows(rows, macro) ==
    IF rows = {} THEN 0
    ELSE LET e == CHOOSE x \in rows : TRUE
         IN  e[macro] * e.servings + SumRows(rows \ {e}, macro)

FoodRowsFor(user_id, date) ==
    {e \in food_entries : e.user_id = user_id /\ e.date = date}

\* the stored rows listed in a meal bucket
Bucket(result, meal) == {result.meals[meal][i].entry : i \in 1 .. Len(result.meals[meal])}

\* C3: for the rows stored for a user on a date, get_daily_entries returns
\* four buckets that partition exactly those rows, each row in the bucket its
\* meal_type names and listed once, and each of the four totals is the sum
\* over those rows of per-serving value x servings (fiber and sugar are no
\* totals).
C3_DailyPartition ==
    \A u \in UserIds, d \in Dates :
        LET r    == get_daily_entries(u, d)
            rows == FoodRowsFor(u, d)
        IN  /\ r.status = 200
            /\ DOMAIN r.meals = MealTypes
            /\ \A e \in rows : e.meal_type \in MealTypes /\ e \in Bucket(r, e.meal_type)
            /\ \A m \in MealTypes :
                  /\ Bucket(r, m) = {e \in rows : e.meal_type = m}
                  /\ Len(r.meals[m]) = Cardinality(Bucket(r, m))
            /\ DOMAIN r.totals = Macros
            /\ \A k \in Macros : r.totals[k] = SumRows(rows, k)

\* C4: after any sequence of create, update and delete of food entries,
\* get_daily_entries for any user id and date raises nothing and returns the
\* four keys breakfast, lunch, dinner, snack; with no entries for that user
\* and date every bucket is empty and every total is zero.
C4_DailyTotal ==
    \A u \in UserIds, d \in Dates :
        LET r == get_daily_entries(u, d)
        IN  /\ r.status = 200
            /\ DOMAIN r.meals = MealTypes
            /\ FoodRowsFor(u, d) = {} =>
                  /\ \A m \in MealTypes : r.meals[m] = <<>>
                  /\ \A k \in Macros : r.totals[k] = 0

\* the calendar day after (year, month, day)
NextCivil(ymd) ==
    IF ymd[3] < DaysInMonth(ymd[1], ymd[2]) THEN <<ymd[1], ymd[2], ymd[3] + 1>>
    ELSE IF ymd[2] < 12 THEN <<ymd[1], ymd[2] + 1, 1>>
    ELSE <<ymd[1] + 1, 1, 1>>

\* C5: for any store state, user id and explicit start_date, get_weekly_stats
\* returns end_date = start_date + 6 and a daily_stats mapping of exactly 7
\* keys, the ISO dates of start_date .. start_date + 6 in order (seven
\* consecutive calendar days, the first start_date and the last end_date),
\* each present with zero totals when the user has no entry on that date.
C5_WeekWindow ==
    \A u \in UserIds, sd \in StartDates :
        LET r == get_weekly_stats(u, sd, BaseDay)
            s == Val(sd)
            k == r.daily_stats
        IN  /\ r.status = 200
            /\ r.start_date = s
            /\ r.end_date = s + 6
            /\ Len(k) = 7
            /\ k[1][1] = IsoFormat(s)
            /\ k[7][1] = IsoFormat(r.end_date)
            /\ \A i \in 1 .. 6 : k[i + 1][1] = NextCivil(k[i][1])
            /\ \A i \in 1 .. 7, j \in 1 .. 7 : k[i][1] = k[j][1] => i = j
            /\ \A i \in 1 .. 7 :
                  /\ DOMAIN k[i][2] = Macros
                  /\ FoodRowsFor(u, s + i - 1) = {} => k[i][2] = ZeroTotals

\* a weekly request was answered while the store holds a user's entry on
\* 29 February inside one of the windows and a day of that window is empty
C5_Witness ==
    /\ resp.op = "get_weekly_stats"
    /\ \E e \in food_entries :
          /\ IsoFormat(e.date) = <<2024, 2, 29>>
          /\ \E sd \in StartDates :
                /\ Val(sd) <= e.date /\ e.date <= Val(sd) + 6
                /\ \E i \in 0 .. 6 : FoodRowsFor(e.user_id, Val(sd) + i) = {}

\* the totals get_weekly_stats reports under the key of a date
WeekTotals(result, date) ==
    result.daily_stats[KeyIndex(result.daily_stats, IsoFormat(date))][2]

InWindow(result, date) == result.start_date <= date /\ date <= result.end_date

GoalUpdateEffect(user_id, user_update, sets) ==
    \E old \in ById(users, user_id) : \E new \in users' :
        /\ new.id = old.id /\ new.name = old.name
        /\ \A f \in sets : new[f] = user_update.values[f]
        /\ \A f \in GoalFields \ sets : new[f] = old[f]
        /\ users' \ {new} = users \ {old}

\* C6 as stated: update_user on an existing user (it answers 200) sets exactly the goal
\* fields explicitly present in the request to the supplied values and leaves
\* the other goal fields, the name and all other users unchanged.
C6_SetsEveryPresentField ==
    [][(resp'.op = "update_user" /\ resp'.status = 200) =>
          \A p \in UserUpdates :
              update_user(resp'.id, p) => GoalUpdateEffect(resp'.id, p, p.fields_set)]_vars

\* C6 amended: update_user on an existing user sets exactly the goal fields
\* present in the request with a value other than null (zero and negative
\* values included); a field sent as null is left unchanged like an absent
\* one, and so are the name and all other users.
C6_PartialUpdate ==
    [][(resp'.op = "update_user" /\ resp'.status = 200) =>
          \A p \in UserUpdates :
              update_user(resp'.id, p) =>
                  GoalUpdateEffect(resp'.id, p, {f \in p.fields_set : ~IsNone(p.values[f])})]_vars

\* the spec's example: only protein_goal updated to 180 on {2000,150,200,65},
\* next to a second user
C6_Witness ==
    /\ resp.op = "update_user"
    /\ resp.status = 200
    /\ Cardinality(users) = 2
    /\ \E u \in users :
          /\ u.id = resp.id
          /\ u.calorie_goal = Some(2000) /\ u.protein_goal = Some(180)
          /\ u.carb_goal = Some(200) /\ u.fat_goal = Some(65)

\* upstream outcomes the spec calls failures: a non-success status, a body
\* that is no JSON object, a transport error, a timeout
UpstreamFailed(upstream) ==
    \/ upstream.kind # "response"
    \/ upstream.status_code # HttpOk
    \/ upstream.body.type # "object"

\* C7: for every upstream outcome that is a failure, search_food returns an
\* empty result set and get_product_by_barcode returns "not found" (None);
\* neither lets an upstream error propagate to its caller.
C7_FailuresAbsorbed ==
    (resp.op \in {"search_food", "get_food_by_barcode"} /\ UpstreamFailed(resp.upstream)) =>
        /\ ~resp.results.raised
        /\ resp.op = "search_food" => resp.results.value.products = <<>>
        /\ resp.op = "get_food_by_barcode" => IsNone(resp.results.value)

\* the tables of `store` by position
StoreTables == <<"users", "food_entries", "weight_entries", "favorite_foods">>

\* a by-id request on table `name`: with no row of that id the answer is
\* 404 and no stored record changes; with one, the answer is 200, the row is
\* replaced by `after` (removed when `after` is empty) and nothing else changes
ByIdEffect(name, id, after) ==
    LET k == CHOOSE i \in 1 .. Len(StoreTables) : StoreTables[i] = name
    IN
    IF ById(store[k], id) = {}
    THEN resp'.status = 404 /\ store' = store
    ELSE /\ resp'.status = 200
         /\ Cardinality(ById(store[k], id)) = 1
         /\ store'[k] = (store[k] \ ById(store[k], id)) \cup after
         /\ \A j \in 1 .. Len(store) : j # k => store'[j] = store[j]

\* the stored entry of that id with nothing but its servings changed
ServingsChanged(id, servings) ==
    {[e EXCEPT !.servings = servings] : e \in ById(food_entries, id)}

\* C8: update_food_entry, delete_food_entry, delete_weight_entry,
\* remove_favorite and update_user on an id that is not in the store answer
\* NotFound (404) and leave every stored record unchanged; on an existing id
\* a delete removes exactly that record and update_food_entry changes only
\* that entry's servings.
C8_ByIdOrNotFound ==
    [][\A id \in Ids :
          /\ delete_food_entry(id) => ByIdEffect("food_entries", id, {})
          /\ delete_weight_entry(id) => ByIdEffect("weight_entries", id, {})
          /\ remove_favorite(id) => ByIdEffect("favorite_foods", id, {})
          /\ \A s \in ServingInputs :
                update_food_entry(id, s) => ByIdEffect("food_entries", id, ServingsChanged(id, s))
          /\ (update_user(id, UserUpdate({"protein_goal"}, {})) /\ ById(users, id) = {}) =>
                (resp'.status = 404 /\ store' = store)]_vars

\* one of two food entries was deleted and the other one is still stored,
\* with a weight record and a favorite beside it
C8_Witness ==
    /\ resp.op = "delete_food_entry"
    /\ resp.status = 200
    /\ Cardinality(food_entries) = 1
    /\ \A e \in food_entries : e.id # resp.id
    /\ weight_entries # {}
    /\ favorite_foods # {}

UniqueNames == \A a \in users, b \in users : a.name = b.name => a = b

\* C9: under any interleaving of create_user requests no two users have the
\* same name, and a create_user for a name that already exists when it
\* writes is answered with the Conflict failure (400), adds no user and does
\* not change the existing users.
C9_ConflictOnDuplicate ==
    [][/\ UniqueNames'
       /\ \A r \in 1 .. NReq :
             (CreateUserFinish(r) /\ \E u \in users : u.name = reqs[r].body.name) =>
                 (resp'.status = 400 /\ users' = users)]_vars

\* the normalized fact of raw product `product`, by the spec's defaulting
\* rules for the missing parts
DefaultsApplied(product, fact) ==
    LET nutriments == IF IsNone(product.nutriments) THEN <<>>
                      ELSE Val(product.nutriments).items
        missing(key) == key \notin DOMAIN nutriments
    IN  /\ missing("energy-kcal_100g") => fact.calories_per_100g = 0
        /\ missing("proteins_100g") => fact.protein_per_100g = 0
        /\ missing("carbohydrates_100g") => fact.carbs_per_100g = 0
        /\ missing("fat_100g") => fact.fat_per_100g = 0
        /\ missing("fiber_100g") => fact.fiber_per_100g = 0
        /\ missing("sugars_100g") => fact.sugar_per_100g = 0
        /\ IsNone(product.serving_size) => fact.serving_size = "100g"
        /\ IsNone(product.brands) => fact.brand = ""
        /\ IsNone(product.image_front_small_url) => IsNone(fact.image_url)
        /\ fact.source = "openfoodfacts"

\* what the two entry points make of the one raw product
ViaSearch(product) ==
    search_food(1, [kind |-> "response", status_code |-> HttpOk,
                    body |-> SearchBody(Some(<<product>>), None)])

ViaBarcode(product) ==
    get_product_by_barcode([kind |-> "response", status_code |-> HttpOk,
                            body |-> BarcodeBody(Some(1), Some(product))])

\* the raw products a successful answer was made of, with the facts made
RawAndFacts ==
    IF resp.op = "search_food" /\ resp.status = 200 /\ ~UpstreamFailed(resp.upstream)
    THEN LET raw == Get(resp.upstream.body.items.products, <<>>)
         IN  {<<raw[i], resp.results.value.products[i]>> : i \in 1 .. Len(raw)}
    ELSE IF resp.op = "get_food_by_barcode" /\ resp.status = 200
    THEN {<<Get(resp.upstream.body.items.product, EmptyProduct), Val(resp.results.value)>>}
    ELSE {}

\* C10: for a raw product lacking the nutriments map or a nutrient key, both
\* search_food and get_product_by_barcode give 0 for the macro field, "100g"
\* for a missing serving_size, "" for a missing brand, null for a missing
\* image URL and "openfoodfacts" as source; and the two entry points make the
\* same fact of the same raw product.
C10_Defaults ==
    /\ resp.op = "search_food" /\ resp.status = 200 /\ ~UpstreamFailed(resp.upstream) =>
          Len(resp.results.value.products) =
              Len(Get(resp.upstream.body.items.products, <<>>))
    /\ \A pair \in RawAndFacts :
          /\ DefaultsApplied(pair[1], pair[2])
          /\ ViaSearch(pair[1]) = Return([products |-> <<pair[2]>>, count |-> 0,
                                          page |-> 1, page_size |-> PageSize])
          /\ ViaBarcode(pair[1]) = Return(Some(pair[2]))

\* a barcode lookup answered a product that has neither nutriments nor
\* serving_size, brand and image
C10_Witness ==
    /\ resp.op = "get_food_by_barcode"
    /\ resp.status = 200
    /\ resp.upstream.body.items.product = Some(RawProduct({"code", "product_name"}, None))
    /\ Val(resp.results.value).calories_per_100g = 0

====
